---- MODULE Spec2Model ----
(***************************************************************************)
(* smolink: a URL shortener with two routes, "/c" (create, bearer token)   *)
(* and "/" (expand, redirect), over two SQLite tables, authorization and   *)
(* links.  Two builds share the database file: the base build (POST only,  *)
(* no token provisioning) and the enhanced build (POST and GET, default    *)
(* token provisioned at startup).                                          *)
(*                                                                         *)
(* A Go string is modelled as a sequence of one-character strings, so that *)
(* strings.Contains, strings.Split, strings.ReplaceAll, url.ParseRequestURI*)
(* and URL.String are computed character by character.                     *)
(***************************************************************************)
EXTENDS Integers, Sequences, FiniteSets, TLC

(***************************************************************************)
(* Bytes.  Printable ASCII 32..126 in order; the backquote and any other    *)
(* byte are written \xHH.                                                   *)
(***************************************************************************)
Ascii ==
    << " ", "!", "\"", "#", "$", "%", "&", "'", "(", ")", "*", "+", ",", "-", ".", "/",
       "0", "1", "2", "3", "4", "5", "6", "7", "8", "9", ":", ";", "<", "=", ">", "?",
       "@", "A", "B", "C", "D", "E", "F", "G", "H", "I", "J", "K", "L", "M", "N", "O",
       "P", "Q", "R", "S", "T", "U", "V", "W", "X", "Y", "Z", "[", "\\", "]", "^", "_",
       "\\x60", "a", "b", "c", "d", "e", "f", "g", "h", "i", "j", "k", "l", "m", "n", "o",
       "p", "q", "r", "s", "t", "u", "v", "w", "x", "y", "z", "{", "|", "}", "~" >>

UpperHex == << "0", "1", "2", "3", "4", "5", "6", "7", "8", "9", "A", "B", "C", "D", "E", "F" >>

LowerHex == << "0", "1", "2", "3", "4", "5", "6", "7", "8", "9", "a", "b", "c", "d", "e", "f" >>

Chr(n) ==
    IF n \in 32..126 THEN Ascii[n - 31]
    ELSE "\\x" \o UpperHex[(n \div 16) + 1] \o UpperHex[(n % 16) + 1]

Ord(c) ==
    IF \E i \in 1..95 : Ascii[i] = c
    THEN 31 + (CHOOSE i \in 1..95 : Ascii[i] = c)
    ELSE CHOOSE n \in (0..31) \cup (127..255) : Chr(n) = c

IsAlpha(c) == Ord(c) \in (65..90) \cup (97..122)

IsDigit(c) == Ord(c) \in 48..57

IsHex(c) == \E i \in 1..16 : UpperHex[i] = c \/ LowerHex[i] = c

Unhex(c) == (CHOOSE i \in 1..16 : UpperHex[i] = c \/ LowerHex[i] = c) - 1

\* stringContainsCTLByte: a byte below ' ' or 0x7f.
IsCTL(c) == Ord(c) < 32 \/ Ord(c) = 127

(***************************************************************************)
(* Package strings.                                                        *)
(***************************************************************************)
MinOf(S) == CHOOSE i \in S : \A j \in S : i <= j

MaxOf(S) == CHOOSE i \in S : \A j \in S : i >= j

Occurrences(s, sep) ==
    { i \in 1..(Len(s) - Len(sep) + 1) : SubSeq(s, i, i + Len(sep) - 1) = sep }

\* strings.Index, 1-based; 0 when sep does not occur.
Index(s, sep) == IF Occurrences(s, sep) = {} THEN 0 ELSE MinOf(Occurrences(s, sep))

LastIndex(s, sep) == IF Occurrences(s, sep) = {} THEN 0 ELSE MaxOf(Occurrences(s, sep))

Contains(s, sep) == Index(s, sep) # 0

HasPrefix(s, p) == Len(s) >= Len(p) /\ SubSeq(s, 1, Len(p)) = p

Tail_(s, i) == SubSeq(s, i, Len(s))

RECURSIVE Split(_, _)
\* strings.Split for a non-empty separator: the pieces between successive,
\* non-overlapping occurrences of sep.
Split(s, sep) ==
    LET i == Index(s, sep)
    IN  IF i = 0 THEN << s >>
        ELSE << SubSeq(s, 1, i - 1) >> \o Split(Tail_(s, i + Len(sep)), sep)

RECURSIVE Join(_, _)
Join(parts, sep) ==
    IF Len(parts) = 0 THEN << >>
    ELSE IF Len(parts) = 1 THEN parts[1]
    ELSE parts[1] \o sep \o Join(Tail(parts), sep)

ReplaceAll(s, old, new) == Join(Split(s, old), new)

ToLower(s) ==
    [ i \in 1..Len(s) |-> IF Ord(s[i]) \in 65..90 THEN Chr(Ord(s[i]) + 32) ELSE s[i] ]

(***************************************************************************)
(* Package net/url, as far as ParseRequestURI and URL.String go.  Inputs   *)
(* carry no userinfo and no IPv6 literal, so URL.User is always nil.       *)
(***************************************************************************)
RECURSIVE getSchemeFrom(_, _)
getSchemeFrom(rawURL, i) ==
    IF i > Len(rawURL) THEN [ scheme |-> << >>, rest |-> rawURL, err |-> FALSE ]
    ELSE LET c == rawURL[i]
         IN  IF IsAlpha(c) THEN getSchemeFrom(rawURL, i + 1)
             ELSE IF IsDigit(c) \/ c \in { "+", "-", "." }
             THEN IF i = 1 THEN [ scheme |-> << >>, rest |-> rawURL, err |-> FALSE ]
                  ELSE getSchemeFrom(rawURL, i + 1)
             ELSE IF c = ":"
             THEN IF i = 1 THEN [ scheme |-> << >>, rest |-> << >>, err |-> TRUE ]
                  ELSE [ scheme |-> SubSeq(rawURL, 1, i - 1),
                         rest |-> Tail_(rawURL, i + 1), err |-> FALSE ]
             ELSE [ scheme |-> << >>, rest |-> rawURL, err |-> FALSE ]

getScheme(rawURL) == getSchemeFrom(rawURL, 1)

\* shouldEscape for the modes "path" (encodePath) and "host" (encodeHost).
shouldEscape(c, mode) ==
    IF IsAlpha(c) \/ IsDigit(c) THEN FALSE
    ELSE IF mode = "host"
            /\ c \in { "!", "$", "&", "'", "(", ")", "*", "+", ",", ";", "=", ":",
                       "[", "]", "<", ">", "\"" }
    THEN FALSE
    ELSE IF c \in { "-", "_", ".", "~" } THEN FALSE
    ELSE IF c \in { "$", "&", "+", ",", "/", ":", ";", "=", "?", "@" }
    THEN IF mode = "path" THEN c = "?" ELSE TRUE
    ELSE TRUE

RECURSIVE unescapeFrom(_, _, _)
\* unescape: a "%" must be followed by two hex digits; in host mode only
\* escapes of non-ASCII bytes and "%25" are allowed, and no byte that would
\* need escaping may appear.
unescapeFrom(s, i, mode) ==
    IF i > Len(s) THEN [ err |-> FALSE, val |-> << >> ]
    ELSE IF s[i] = "%"
    THEN IF i + 2 > Len(s) \/ ~IsHex(s[i + 1]) \/ ~IsHex(s[i + 2])
         THEN [ err |-> TRUE, val |-> << >> ]
         ELSE IF mode = "host" /\ Unhex(s[i + 1]) < 8 /\ SubSeq(s, i, i + 2) # << "%", "2", "5" >>
         THEN [ err |-> TRUE, val |-> << >> ]
         ELSE LET r == unescapeFrom(s, i + 3, mode)
              IN  [ err |-> r.err,
                    val |-> << Chr(16 * Unhex(s[i + 1]) + Unhex(s[i + 2])) >> \o r.val ]
    ELSE IF mode = "host" /\ Ord(s[i]) < 128 /\ shouldEscape(s[i], "host")
    THEN [ err |-> TRUE, val |-> << >> ]
    ELSE LET r == unescapeFrom(s, i + 1, mode)
         IN  [ err |-> r.err, val |-> << s[i] >> \o r.val ]

unescape(s, mode) ==
    LET r == unescapeFrom(s, 1, mode)
    IN  IF r.err THEN [ err |-> TRUE, val |-> << >> ] ELSE r

RECURSIVE escape(_, _)
escape(s, mode) ==
    IF Len(s) = 0 THEN << >>
    ELSE ( IF shouldEscape(s[1], mode)
           THEN << "%", UpperHex[(Ord(s[1]) \div 16) + 1], UpperHex[(Ord(s[1]) % 16) + 1] >>
           ELSE << s[1] >> ) \o escape(Tail(s), mode)

validEncoding(s, mode) ==
    \A i \in 1..Len(s) :
        \/ s[i] \in { "!", "$", "&", "'", "(", ")", "*", "+", ",", ";", "=", ":", "@",
                      "[", "]", "%" }
        \/ ~shouldEscape(s[i], mode)

\* validOptionalPort: "" or ":" followed by digits.
validOptionalPort(port) ==
    \/ Len(port) = 0
    \/ /\ port[1] = ":"
       /\ \A i \in 2..Len(port) : IsDigit(port[i])

\* parseHost, without the IPv6 bracket form.
parseHost(host) ==
    LET i == LastIndex(host, << ":" >>)
    IN  IF i # 0 /\ ~validOptionalPort(Tail_(host, i))
        THEN [ err |-> TRUE, val |-> << >> ]
        ELSE unescape(host, "host")

NoURL ==
    [ err |-> TRUE, Scheme |-> << >>, Opaque |-> << >>, Host |-> << >>, Path |-> << >>,
      RawPath |-> << >>, OmitHost |-> FALSE, ForceQuery |-> FALSE, RawQuery |-> << >> ]

EmptyURL == [ NoURL EXCEPT !.err = FALSE ]

\* URL.setPath on a URL under construction: path is unescape(p).
setUnescaped(u, p, path) ==
    IF path.err THEN NoURL
    ELSE [ u EXCEPT !.Path = path.val,
                    !.RawPath = IF p = escape(path.val, "path") THEN << >> ELSE p ]

setPath(u, p) == setUnescaped(u, p, unescape(p, "path"))

\* The authority a (what follows "//") up to its first "/", at index j, and
\* the path from there on.
parseAuthority(u, a, j) ==
    IF j = 0 THEN IF parseHost(a).err THEN NoURL
                  ELSE setPath([ u EXCEPT !.Host = parseHost(a).val ], << >>)
    ELSE IF parseHost(SubSeq(a, 1, j - 1)).err THEN NoURL
    ELSE setPath([ u EXCEPT !.Host = parseHost(SubSeq(a, 1, j - 1)).val ], Tail_(a, j))

\* The part of parse after the scheme and the query are split off.
parseRest(u, rest) ==
    IF ~HasPrefix(rest, << "/" >>)
    THEN IF u.Scheme # << >> THEN [ u EXCEPT !.Opaque = rest ] ELSE NoURL
    ELSE IF u.Scheme # << >> /\ HasPrefix(rest, << "/", "/" >>)
    THEN parseAuthority(u, Tail_(rest, 3), Index(Tail_(rest, 3), << "/" >>))
    ELSE setPath([ u EXCEPT !.OmitHost = (u.Scheme # << >>) ], rest)

\* The query: a lone trailing "?" forces an empty query, otherwise the query
\* is what follows the first "?", at index q.
parseQuery(scheme, rest, q) ==
    IF Len(rest) > 0 /\ rest[Len(rest)] = "?" /\ q = Len(rest)
    THEN parseRest([ EmptyURL EXCEPT !.Scheme = scheme, !.ForceQuery = TRUE ],
                   SubSeq(rest, 1, Len(rest) - 1))
    ELSE IF q = 0 THEN parseRest([ EmptyURL EXCEPT !.Scheme = scheme ], rest)
    ELSE parseRest([ EmptyURL EXCEPT !.Scheme = scheme, !.RawQuery = Tail_(rest, q + 1) ],
                   SubSeq(rest, 1, q - 1))

parseScheme(s) ==
    IF s.err THEN NoURL
    ELSE parseQuery(ToLower(s.scheme), s.rest, Index(s.rest, << "?" >>))

\* parse(rawURL, viaRequest = true), the body of url.ParseRequestURI.  The
\* fragment is not split off: a "#" stays in the path or the query.
parse(rawURL) ==
    IF \E i \in 1..Len(rawURL) : IsCTL(rawURL[i]) THEN NoURL
    ELSE IF rawURL = << >> THEN NoURL
    ELSE IF rawURL = << "*" >> THEN [ EmptyURL EXCEPT !.Path = << "*" >> ]
    ELSE parseScheme(getScheme(rawURL))

\* URL.EscapedPath: raw is unescape(u.RawPath).
escapedPathOf(u, raw) ==
    IF u.RawPath # << >> /\ validEncoding(u.RawPath, "path") /\ ~raw.err /\ raw.val = u.Path
    THEN u.RawPath
    ELSE IF u.Path = << "*" >> THEN << "*" >>
    ELSE escape(u.Path, "path")

EscapedPath(u) == escapedPathOf(u, unescape(u.RawPath, "path"))

\* The pieces URL.String writes for a URL without userinfo and fragment.
writeURL(u, scheme, host, path) ==
    LET auth == IF u.Scheme # << >> \/ u.Host # << >>
                THEN IF u.OmitHost /\ u.Host = << >> THEN << >>
                     ELSE ( IF u.Host # << >> \/ u.Path # << >> THEN << "/", "/" >> ELSE << >> )
                          \o host
                ELSE << >>
        sep == IF path # << >> /\ path[1] # "/" /\ u.Host # << >> THEN << "/" >> ELSE << >>
        dot == IF scheme = << >> /\ u.Host = << >>
                  /\ Contains(SubSeq(path, 1, Index(path \o << "/" >>, << "/" >>) - 1), << ":" >>)
               THEN << ".", "/" >> ELSE << >>
    IN  scheme
        \o ( IF u.Opaque # << >> THEN u.Opaque ELSE auth \o sep \o dot \o path )
        \o ( IF u.ForceQuery \/ u.RawQuery # << >> THEN << "?" >> \o u.RawQuery ELSE << >> )

URLString(u) ==
    writeURL(u, IF u.Scheme # << >> THEN u.Scheme \o << ":" >> ELSE << >>,
             escape(u.Host, "host"), EscapedPath(u))

(***************************************************************************)
(* Bounds and inputs.                                                      *)
(***************************************************************************)
\* Number of distinct values shortuuid.New() can return.
NumKeys == 2

\* Cap on the rows of the authorization table.
MaxAuthRows == 2

\* Values of shortuuid.New(): non-empty words over the base-57 alphabet.
KeySpace == { << "k", Chr(49 + i) >> : i \in 1..NumKeys }

\* Values of uuid.New().String().
TokenSpace == { << "a", "1" >>, << "b", "2" >> }

Methods == { "GET", "POST", "PUT" }

Bearer == << "B", "e", "a", "r", "e", "r", " " >>

\* Authorization header values; the empty string is an absent header.
Headers ==
    { << >>,
      Bearer,
      << "B", "a", "s", "i", "c", " ", "a", "1" >>,
      Bearer \o << "a", "1" >>,
      Bearer \o << "b", "2" >>,
      << "x" >> \o Bearer \o << "a", "1" >>,
      Bearer \o << "a", "1" >> \o Bearer \o << "b", "2" >> }

\* Values of the url query parameter; the empty string is a missing one.
Urls ==
    { << >>,
      << "n", "o", "t", "-", "a", "-", "u", "r", "l" >>,
      << "/", "p" >>,
      << "h", "t", "t", "p", ":", "/", "/", "a", "/", "p" >>,
      << "h", "t", "t", "p", ":", "/", "/", "a", "/", "p", "#", "f" >> }

\* Values of r.URL.Path (the request path, already unescaped once by the
\* server) handed to the expand handler.
Paths ==
    { << "/" >>,
      << "/", "z", "z" >>,
      << "/", "%", "z", "z" >>,
      << "/", "k", "2", "/" >>,
      << "/", "k", "2", "?", "x" >>,
      << "/", "%", "6", "b", "2" >> }
    \cup { << "/" >> \o k : k \in KeySpace }

\* os.Getenv("BASE_URL").
BaseURL == << "h", "t", "t", "p", ":", "/", "/", "s" >>

(***************************************************************************)
(* The string functions the handlers call, tabulated once over the inputs  *)
(* above and computed directly on any other argument.                      *)
(***************************************************************************)
\* mkShortURL(key): baseURL() + "/" + key.
mkShortURL(path) == BaseURL \o << "/" >> \o path

parseMemo == [ s \in Urls \cup Paths |-> parse(s) ] @@ << >>

ParseRequestURI(rawURL) == parseMemo[rawURL]

stringMemo == [ u \in { parseMemo[s] : s \in Urls } |-> URLString(u) ] @@ << >>

String(u) == stringMemo[u]

\* strings.Contains(authHeader, "Bearer ") and strings.Split(authHeader, "Bearer ")[1].
containsMemo == [ h \in Headers |-> Contains(h, Bearer) ] @@ << >>

ContainsBearer(authHeader) == containsMemo[authHeader]

tokenMemo ==
    [ h \in { x \in Headers : containsMemo[x] } |-> Split(h, Bearer)[2] ] @@ << >>

BearerToken(authHeader) == tokenMemo[authHeader]

\* strings.ReplaceAll(path, "/", "").
stripMemo == [ s \in { parseMemo[p].Path : p \in Paths } |-> ReplaceAll(s, << "/" >>, << >>) ] @@ << >>

StripSlashes(path) == stripMemo[path]

(***************************************************************************)
(* State.                                                                  *)
(***************************************************************************)
VARIABLES
    variant,        \* the build that is serving: "none", "base" or "enhanced"
    authorization,  \* table authorization: sequence of rows [id, key]
    links,          \* table links: set of rows [short_url, full_url]
    issued,         \* history: the pairs [shorturl, url] answered by create
    event           \* the last startup or request and its outcome

vars == << variant, authorization, links, issued, event >>

NoEvent ==
    [ op |-> "none", method |-> "", header |-> << >>, arg |-> << >>, key |-> << >>,
      status |-> 0, body |-> "", shorturl |-> << >>, target |-> << >> ]

(***************************************************************************)
(* The store.                                                              *)
(***************************************************************************)
\* Mutant: the Scan error is ignored and the zero value of dbToken compared.
validateAuthorization_IgnoreErr(token) ==
    \/ \E i \in 1..Len(authorization) : authorization[i].key = token
    \/ token = << >>

validateAuthorization(token) ==
    \E i \in 1..Len(authorization) : authorization[i].key = token

\* Mutant: insert or replace, an existing row with the key is overwritten.
saveShortUrl_Replace(originalUrl, key) ==
    [ short |-> mkShortURL(key), err |-> FALSE,
      rows |-> { r \in links : r.short_url # key }
               \cup { [ short_url |-> key, full_url |-> originalUrl ] } ]

\* Mutant: short_url is no primary key, the insert always adds a row.
saveShortUrl_NoPrimaryKey(originalUrl, key) ==
    [ short |-> mkShortURL(key), err |-> FALSE,
      rows |-> links \cup { [ short_url |-> key, full_url |-> originalUrl ] } ]

\* The insert fails on the primary key short_url; key is shortuuid.New().
saveShortUrl(originalUrl, key) ==
    LET taken == \E r \in links : r.short_url = key
    IN  [ short |-> mkShortURL(key),
          err |-> taken,
          rows |-> IF taken THEN links
                   ELSE links \cup { [ short_url |-> key, full_url |-> originalUrl ] } ]

\* The path is read off the parse result before the error is looked at: a
\* failed parse is a nil dereference and the goroutine panics.
queryFullUrl(rows) ==
    IF rows = {} THEN [ panic |-> FALSE, err |-> TRUE, fullUrl |-> << >> ]
    ELSE [ panic |-> FALSE, err |-> FALSE, fullUrl |-> (CHOOSE r \in rows : TRUE).full_url ]

lookupParsed(pathWithLeadingSlash) ==
    IF pathWithLeadingSlash.err THEN [ panic |-> TRUE, err |-> TRUE, fullUrl |-> << >> ]
    ELSE queryFullUrl({ r \in links : r.short_url = StripSlashes(pathWithLeadingSlash.Path) })

getFullUrl(shortUrl) == lookupParsed(ParseRequestURI(shortUrl))

\* Mutant: the early return for an existing row is missing.
generateDefaultAuthorizationToken_Always(key) ==
    [ key |-> key, err |-> FALSE,
      rows |-> Append(authorization, [ id |-> Len(authorization) + 1, key |-> key ]) ]

\* key is uuid.New().String(); the row id is assigned by the table.
generateDefaultAuthorizationToken(key) ==
    IF Len(authorization) > 0
    THEN [ key |-> << >>, err |-> FALSE, rows |-> authorization ]
    ELSE [ key |-> key, err |-> FALSE,
           rows |-> Append(authorization, [ id |-> Len(authorization) + 1, key |-> key ]) ]

(***************************************************************************)
(* The handlers.                                                           *)
(***************************************************************************)
\* Mutant: the base build accepts GET as the enhanced build does.
AcceptedMethods_Both == { "POST", "GET" }

AcceptedMethods == IF variant = "enhanced" THEN { "POST", "GET" } ELSE { "POST" }

Answer(status, body) ==
    [ status |-> status, body |-> body, shorturl |-> << >>, key |-> << >>,
      rows |-> links, pair |-> {} ]

answerSaved(rawurl, key, saved) ==
    IF saved.err THEN [ Answer(500, "Failed to create short url") EXCEPT !.key = key ]
    ELSE [ status |-> 200, body |-> "json", shorturl |-> saved.short, key |-> key,
           rows |-> saved.rows, pair |-> { [ shorturl |-> saved.short, url |-> rawurl ] } ]

createLinkHandler(method, authHeader, rawurl, key) ==
    IF Len(authHeader) < 1 \/ ~ContainsBearer(authHeader)
    THEN Answer(401, "Unauthorized")
    ELSE IF ~validateAuthorization(BearerToken(authHeader))
    THEN Answer(401, "Unauthorized")
    ELSE IF method \notin AcceptedMethods
    THEN Answer(405, "Method not supported")
    ELSE IF ParseRequestURI(rawurl).err THEN Answer(400, "Malformed URL")
    ELSE answerSaved(rawurl, key, saveShortUrl(String(ParseRequestURI(rawurl)), key))

\* Status 0: the handler panicked and no response was written.
answerFound(found) ==
    IF found.panic THEN [ status |-> 0, body |-> "", target |-> << >> ]
    ELSE IF found.err
    THEN [ status |-> 500, body |-> "Failed to get full url", target |-> << >> ]
    ELSE [ status |-> 307, body |-> "", target |-> found.fullUrl ]

expandLinkHandler(method, path) ==
    IF method # "GET" THEN [ status |-> 405, body |-> "Method not supported", target |-> << >> ]
    ELSE answerFound(getFullUrl(path))

(***************************************************************************)
(* Actions.  net/http serves each request on its own goroutine.  A handler *)
(* reads the authorization table and makes at most one write, a single     *)
(* INSERT, which SQLite applies atomically; the authorization table is     *)
(* written only by main, before the server listens.  The interleavings of  *)
(* concurrent requests are therefore the orders of whole handlers, and     *)
(* each handler is one action.  A response is the status and body written, *)
(* the short URL of the JSON body, and the target handed to http.Redirect. *)
(***************************************************************************)
Init ==
    /\ variant = "none"
    /\ authorization = << >>
    /\ links = {}
    /\ issued = {}
    /\ event = NoEvent

\* main() of either build on the shared database file; only the enhanced
\* build provisions the default token.
main(build, made) ==
    /\ variant' = build
    /\ authorization' = made.rows
    /\ event' = [ NoEvent EXCEPT !.op = "startup", !.key = made.key ]
    /\ UNCHANGED << links, issued >>

Startup(build, key) ==
    /\ Len(authorization) < MaxAuthRows
    /\ main(build, IF build = "enhanced" THEN generateDefaultAuthorizationToken(key)
                   ELSE [ key |-> << >>, err |-> FALSE, rows |-> authorization ])

serveCreate(method, authHeader, rawurl, r) ==
    /\ links' = r.rows
    /\ issued' = issued \cup r.pair
    /\ event' = [ NoEvent EXCEPT !.op = "create", !.method = method, !.header = authHeader,
                                 !.arg = rawurl, !.key = r.key, !.status = r.status,
                                 !.body = r.body, !.shorturl = r.shorturl ]
    /\ UNCHANGED << variant, authorization >>

CreateLink(method, authHeader, rawurl, key) ==
    /\ variant # "none"
    /\ serveCreate(method, authHeader, rawurl,
                   createLinkHandler(method, authHeader, rawurl, key))

serveExpand(method, path, r) ==
    /\ event' = [ NoEvent EXCEPT !.op = "expand", !.method = method, !.arg = path,
                                 !.status = r.status, !.body = r.body, !.target = r.target ]
    /\ UNCHANGED << variant, authorization, links, issued >>

ExpandLink(method, path) ==
    /\ variant # "none"
    /\ serveExpand(method, path, expandLinkHandler(method, path))

Next ==
    \/ \E build \in { "base", "enhanced" }, key \in TokenSpace : Startup(build, key)
    \/ \E method \in Methods, authHeader \in Headers, rawurl \in Urls, key \in KeySpace :
          CreateLink(method, authHeader, rawurl, key)
    \/ \E method \in Methods, path \in Paths : ExpandLink(method, path)

Spec == Init /\ [][Next]_vars
(***************************************************************************)
(* What the properties below read off a request, computed from the strings *)
(* alone.                                                                  *)
(***************************************************************************)
\* The header after the first "Bearer ", and that remainder up to the next
\* "Bearer " if there is one.
RemainderOf(h) == Tail_(h, Index(h, Bearer) + Len(Bearer))

FirstTokenOf(h) ==
    IF Contains(RemainderOf(h), Bearer)
    THEN SubSeq(RemainderOf(h), 1, Index(RemainderOf(h), Bearer) - 1)
    ELSE RemainderOf(h)

HeaderFacts ==
    [ h \in Headers |->
        [ literal |-> Contains(h, Bearer),
          remainder |-> IF Contains(h, Bearer) THEN RemainderOf(h) ELSE << >>,
          first |-> IF Contains(h, Bearer) THEN FirstTokenOf(h) ELSE << >> ] ] @@ << >>

ProvisionedTokens == { authorization[i].key : i \in 1..Len(authorization) }

\* The header is absent, lacks "Bearer ", or its token is not provisioned.
Unauthorized(h) ==
    \/ h = << >>
    \/ ~HeaderFacts[h].literal
    \/ HeaderFacts[h].first \notin ProvisionedTokens

MethodsOf(build) == IF build = "enhanced" THEN { "POST", "GET" } ELSE { "POST" }

\* Strings that are syntactically valid absolute URLs: they parse and have
\* a scheme.
AbsoluteURLs ==
    { s \in Urls \cup { URLString(parse(u)) : u \in Urls } :
        ~parse(s).err /\ parse(s).Scheme # << >> }

\* The path of each short URL create can return.
ShortUrlPath == [ s \in { mkShortURL(k) : k \in KeySpace } |-> parse(s).Path ] @@ << >>

\* The request path with its "/" removed.
Stripped == [ p \in Paths |-> SelectSeq(p, LAMBDA c : c # "/") ] @@ << >>

StoredTokens == { r.short_url : r \in links }

(***************************************************************************)
(* Properties.                                                             *)
(***************************************************************************)
\* C1: after create answered short URL S for the absolute URL U, an expand GET
\* on the path of S answers 307 with target exactly U.
C1_RoundTrip ==
    (event.op = "expand" /\ event.method = "GET")
    => \A i \in issued :
          (i.url \in AbsoluteURLs /\ ShortUrlPath[i.shorturl] = event.arg)
          => (event.status = 307 /\ event.target = i.url)

C3_NotAcceptedIs405 ==
    (event.op = "create" /\ event.method \notin MethodsOf(variant)) => event.status = 405

\* C3 amended: a create request with a method that is not accepted is answered
\* 405 when its Authorization header is valid and 401 when it is not, and in
\* both cases creates no link row.
C3_NotAcceptedAuthorizedIs405 ==
    [][ (event'.op = "create" /\ event'.method \notin MethodsOf(variant'))
        => /\ links' = links
           /\ event'.status = IF Unauthorized(event'.header) THEN 401 ELSE 405 ]_vars

C3_Witness ==
    /\ event.op = "create"
    /\ event.method = "GET"
    /\ variant = "base"
    /\ event.status = 405
    /\ event.arg \in AbsoluteURLs

\* C4: a create request whose header contains "Bearer " is authorized iff the
\* whole remainder of the header after the first "Bearer " is a stored token.
C4_TokenIsRemainder ==
    (event.op = "create" /\ HeaderFacts[event.header].literal)
    => ( (event.status # 401) <=> (HeaderFacts[event.header].remainder \in ProvisionedTokens) )

\* C5: an expand GET whose short token, the request path without its "/", was
\* never inserted is answered 500 "Failed to get full url", never a redirect.
C5_UnknownTokenIs500 ==
    (event.op = "expand" /\ event.method = "GET" /\ Stripped[event.arg] \notin StoredTokens)
    => (event.status = 500 /\ event.body = "Failed to get full url")

\* C6: no request removes or changes a link row, an expand request leaves both
\* tables as they were, and an expand GET of a stored token always redirects
\* to the URL of its row.
C6_ExpandIdempotent ==
    [][ /\ \A r \in links : r \in links'
        /\ event'.op = "expand" => (links' = links /\ authorization' = authorization)
        /\ \A r \in links :
              (event'.op = "expand" /\ event'.method = "GET"
                 /\ event'.arg = << "/" >> \o r.short_url)
              => (event'.status = 307 /\ event'.target = r.full_url) ]_vars

C6_Witness ==
    /\ event.op = "expand"
    /\ event.status = 307
    /\ Cardinality(links) = NumKeys
    /\ \E r \in links : event.arg = << "/" >> \o r.short_url /\ event.target = r.full_url
    /\ \E r \in links : event.target # r.full_url

\* C7: a startup of the enhanced build inserts a token row only into an empty
\* authorization table, and otherwise returns the empty string and leaves the
\* table as it was; the table never holds more than one row and a row, once
\* there, stays.
C7_ProvisionOnce ==
    [][ /\ Len(authorization') <= 1
        /\ \A i \in 1..Len(authorization) :
              i <= Len(authorization') /\ authorization'[i] = authorization[i]
        /\ (event'.op = "startup" /\ variant' = "enhanced")
           => IF Len(authorization) = 0
              THEN /\ Len(authorization') = 1
                   /\ event'.key \in TokenSpace
                   /\ authorization'[1].key = event'.key
              ELSE /\ authorization' = authorization
                   /\ event'.key = << >> ]_vars

C7_Witness ==
    /\ event.op = "startup"
    /\ variant = "enhanced"
    /\ event.key = << >>
    /\ Len(authorization) = 1
    /\ links # {}

\* C8: every link row holds an absolute URL, and an authorized create request
\* with an accepted method whose url parameter is no absolute URL is answered
\* 400 "Malformed URL".
C8_RowsAreAbsolute ==
    /\ \A r \in links : r.full_url \in AbsoluteURLs
    /\ (event.op = "create" /\ ~Unauthorized(event.header)
          /\ event.method \in MethodsOf(variant) /\ event.arg \notin AbsoluteURLs)
       => (event.status = 400 /\ event.body = "Malformed URL")

\* C9: no two link rows share a short token, no row is overwritten, and a
\* create request whose generated token is already stored is answered 500
\* "Failed to create short url" and leaves the rows as they were.
C9_NoDuplicateNoOverwrite ==
    [][ /\ \A r1, r2 \in links' : r1.short_url = r2.short_url => r1 = r2
        /\ \A r \in links : r \in links'
        /\ (event'.op = "create" /\ event'.key \in StoredTokens)
           => /\ event'.status = 500
              /\ event'.body = "Failed to create short url"
              /\ links' = links ]_vars

C9_Witness ==
    /\ event.op = "create"
    /\ event.status = 500
    /\ event.key \in StoredTokens
    /\ \E r \in links : r.short_url = event.key /\ r.full_url \in AbsoluteURLs
    /\ event.arg \in AbsoluteURLs

\* C10: every expand GET, whatever its path, is answered 307 or 500.
C10_ExpandAlwaysAnswers ==
    (event.op = "expand" /\ event.method = "GET") => event.status \in { 307, 500 }
====
